---- MODULE Spec2Model ----
(***************************************************************************)
(* Model of the `labels` crate: the concurrent interner of src/intern.rs,  *)
(* instantiated for its two Internable types: str (src/intern.rs) and a    *)
(* label category `dyn Label` generated by define_label! (src/lib.rs).     *)
(*                                                                         *)
(* One Interner<T> is shared by NumThreads threads.  Every thread          *)
(* runs intern() step by step: get_or_init, read lock, lookup, write lock, *)
(* re-check, leak, insert.  A step is one access to shared state.          *)
(***************************************************************************)
EXTENDS Integers, FiniteSets, Sequences, TLC

\* ---------------------------------------------------------------- bounds
NumThreads == 2
MaxCalls == 3
MaxPanics == 1

Threads == 1..NumThreads
NoThread == 0

\* ------------------------------------------------- label values (lib.rs)
\* Concrete types implementing the label category: A is a struct with one
\* field, U and V are unit structs (zero-sized).
SizedTypes == {"A"}
UnitTypes == {"U", "V"}
Types == SizedTypes \cup UnitTypes

\* The values threads pass to an Interner<dyn Label> (&dyn Label).
LabelValues ==
    {[ty |-> "A", data |-> 0], [ty |-> "A", data |-> 1],
     [ty |-> "U", data |-> 0], [ty |-> "V", data |-> 0]}

\* The values threads pass to an Interner<str> (&str): "", "a", "ab".
StrValues ==
    {[ty |-> "str", data |-> <<>>], [ty |-> "str", data |-> <<"a">>],
     [ty |-> "str", data |-> <<"a", "b">>]}

\* The type parameter T of Interner<T>, and the values of each.
InternableTypes == {"str", "label"}
ValuesOf(T) == IF T = "str" THEN StrValues ELSE LabelValues
Values == StrValues \cup LabelValues

\* Any::type_id of the concrete type behind a trait object.
type_id(v) == v.ty

\* The size in bytes of the value a Box holds: the length of a str, the
\* size of a label's concrete type.
size_of_val(v) ==
    IF v.ty = "str" THEN Len(v.data) ELSE IF v.ty \in UnitTypes THEN 0 ELSE 1

\* Mutant of dyn_eq: the fields are compared without the downcast.
dyn_eq_no_downcast(a, b) == a.data = b.data

\* DynEq::dyn_eq: downcast other to Self's type, then the concrete ==.
dyn_eq(a, b) ==
    IF type_id(b) = type_id(a) THEN a.data = b.data ELSE FALSE

\* The concrete type's own (derived) Hash: a unit struct feeds nothing.
concrete_hash(v) == IF v.ty \in UnitTypes THEN <<>> ELSE <<v.data>>

\* Mutant of dyn_hash: the value's own hash input alone.
dyn_hash_no_type_id(v) == concrete_hash(v)

\* DynHash::dyn_hash: the type id first, then the value's own hash input.
dyn_hash(v) == <<type_id(v)>> \o concrete_hash(v)

\* impl PartialEq for dyn Label / impl Hash for dyn Label.
label_eq(a, b) == dyn_eq(a, b)
label_hash(v) == dyn_hash(v)

\* T: Hash + Eq, the supertraits of Internable the HashSet uses: the
\* contents of a str (its bytes, then 0xff, for the hash), the dynamic
\* equality and hash of a label.
value_eq(a, b) == IF a.ty = "str" THEN a.data = b.data ELSE label_eq(a, b)
value_hash(v) == IF v.ty = "str" THEN v.data \o <<"0xff">> ELSE label_hash(v)

\* ------------------------------------------ permanent references (leak)
\* A &'static T: the address, the type (for a label the vtable's concrete
\* type) and the immutable value stored there; a &str's length is the
\* length of its data.
NoRef == [addr |-> 0, ty |-> "none", data |-> 0]

\* Box::new of a zero-sized value does not allocate: the pointer is the
\* dangling, well-aligned address (alignment 1 for a unit struct).
Dangling == 1

\* First address the global allocator hands out.
HeapBase == 2

\* impl Deref for Interned<T>: the value behind the handle.
deref(r) == [ty |-> r.ty, data |-> r.data]

\* Box::leak of a box holding a copy of v: a zero-sized box is dangling,
\* any other is a fresh allocation at `next`, the allocator's next free
\* address; memory is never freed.
box_leak(v, next) ==
    IF size_of_val(v) = 0
    THEN [addr |-> Dangling, ty |-> v.ty, data |-> v.data]
    ELSE [addr |-> next, ty |-> v.ty, data |-> v.data]

\* impl Internable for str: leak = Box::leak(self.to_owned().into_boxed_str()).
str_leak(v, next) == box_leak(v, next)

\* impl Internable for dyn Label: leak = Box::leak(self.dyn_clone()).
label_leak(v, next) == box_leak(v, next)

\* Internable::leak of the value's type.
leak(v, next) == IF v.ty = "str" THEN str_leak(v, next) ELSE label_leak(v, next)

\* Mutant of alloc_after: the allocator hands the same memory out again
\* (as if the leaked allocation had been freed).
alloc_reuses(v, next) == next

\* The allocator after leak(v, next).
alloc_after(v, next) == next + size_of_val(v)

\* Mutant of str_ref_eq: the pointers alone, without the lengths.
str_ref_eq_ptr_only(a, b) == a.addr = b.addr

\* impl Internable for str: ref_eq compares the pointers and the lengths.
str_ref_eq(a, b) == a.addr = b.addr /\ Len(a.data) = Len(b.data)

\* impl Internable for str: ref_hash feeds the length, then the pointer.
str_ref_hash(r) == <<Len(r.data), r.addr>>

\* Mutant of label_ref_eq: the addresses alone, without the type ids.
ref_eq_addr_only(a, b) == a.addr = b.addr

\* impl Internable for dyn Label: ref_eq compares the type ids, then the
\* data addresses.
label_ref_eq(a, b) ==
    IF type_id(a) # type_id(b) THEN FALSE ELSE a.addr = b.addr

\* impl Internable for dyn Label: ref_hash feeds the type id, then the address.
label_ref_hash(r) == <<type_id(r), r.addr>>

\* Internable::ref_eq / Internable::ref_hash of the handles' type.
ref_eq(a, b) == IF a.ty = "str" THEN str_ref_eq(a, b) ELSE label_ref_eq(a, b)
ref_hash(r) == IF r.ty = "str" THEN str_ref_hash(r) ELSE label_ref_hash(r)

\* impl PartialEq for Interned<T>.
interned_eq(a, b) == ref_eq(a, b)

\* ------------------------------------------- handles a caller can hold
\* Interned<T>(pub &'static T): the field is public, so a handle can wrap
\* any &'static T, whether or not an interner produced it: a sub-slice of
\* a longer str, a reference to a zero-sized value at any address.
Addrs == Dangling..(HeapBase + 1)
StrHandles ==
    {[addr |-> a, ty |-> "str", data |-> v.data] : a \in Addrs, v \in StrValues}
LabelHandles ==
    {[addr |-> a, ty |-> v.ty, data |-> v.data] : a \in Addrs, v \in LabelValues}
HandlesOf(ty) == IF ty = "str" THEN StrHandles ELSE LabelHandles

\* References that exist at the same time read one memory: two strs agree
\* on every byte they share, two sized values at one address are the same
\* value (referents are immutable, memory is not reused).
Consistent(S) ==
    \A a \in S : \A b \in S :
        IF a.ty = "str"
        THEN \A i \in 1..Len(a.data) : \A j \in 1..Len(b.data) :
                a.addr + i = b.addr + j => a.data[i] = b.data[j]
        ELSE (a.addr = b.addr /\ size_of_val(deref(a)) > 0
                              /\ size_of_val(deref(b)) > 0) => a = b


\* ------------------------------- the category interface (define_label!)
\* A concrete type's dyn_clone: a Box<dyn Label> holding a clone of self;
\* its as_dyn_eq / as_dyn_hash: self as a dyn DynEq / dyn DynHash (the
\* object's concrete type and fields).
dyn_clone(v) == [ty |-> v.ty, data |-> v.data]
as_dyn_eq(v) == [ty |-> v.ty, data |-> v.data]
as_dyn_hash(v) == [ty |-> v.ty, data |-> v.data]

\* impl Label for Interned<dyn Label>: dyn_clone forwards to the referent.
interned_dyn_clone(h) == dyn_clone(deref(h))

\* Mutant of interned_as_dyn_eq: the handle itself as the DynEq object (the
\* blanket `impl DynEq for T` applied to Interned<dyn Label>).
as_dyn_eq_of_handle(h) == [ty |-> "Interned", data |-> h.addr]

\* impl Label for Interned<dyn Label>: as_dyn_eq / as_dyn_hash forward to
\* the referent.
interned_as_dyn_eq(h) == as_dyn_eq(deref(h))
interned_as_dyn_hash(h) == as_dyn_hash(deref(h))

\* An extra method of the category (extra_methods), as a concrete type
\* implements it: some function of the value.
extra_method(v) == <<"of_value", v.ty, v.data>>

\* The body the invocation of define_label! gives for the same method on a
\* handle (extra_methods_impl): the macro pastes it unchanged, so it may
\* forward to the referent or compute something of its own from the handle.
ImplBodies == {"forwards", "own"}
extra_method_impl(body, h) ==
    IF body = "forwards" THEN extra_method(deref(h)) ELSE <<"of_handle", h.addr>>


\* impl Clone / Copy for Interned<T>: clone returns *self, a copy of the
\* reference (address and metadata), not of the value behind it.
interned_clone(h) == [addr |-> h.addr, ty |-> h.ty, data |-> deref(h).data]

\* Mutant of interned_intern: the referent is cloned and leaked once more.
intern_leaks_again(h) == box_leak(deref(h), h.addr + 1)

\* impl Label for Interned<dyn Label>: intern(&self) -> Self { *self }.
interned_intern(h) == interned_clone(h)

\* ------------------------------------------------ HashSet<&'static T>
\* Mutant of get: an equality that stops at the concrete type.
get_same_type(S, v) == {r \in S : type_id(r) = type_id(v)}

\* HashSet::get: the entries with the value's hash that are equal to it.
get(S, v) ==
    {r \in S : value_hash(deref(r)) = value_hash(v) /\ value_eq(deref(r), v)}

\* HashSet::insert: an equal entry already present is kept, not replaced.
insert(S, r) == IF get(S, deref(r)) # {} THEN S ELSE S \cup {r}

\* Mutant of read_lookup: the result of the first lookup is ignored.
always_miss(S, v) == {}

\* The lookup under the shared lock (intern.rs line 59).
read_lookup(S, v) == get(S, v)

\* Mutant of write_lookup: no re-check after taking the exclusive lock.
no_recheck(S, v) == {}

\* The re-check under the exclusive lock (intern.rs line 65).
write_lookup(S, v) == get(S, v)

\* ------------------------------------------------------ RwLock, OnceLock
\* LockResult of RwLock::read / RwLock::write: Err(PoisonError(guard)) when
\* the lock is poisoned; the guard is acquired either way.
lock_result(p) == IF p THEN "Err" ELSE "Ok"

\* Mutant of unwrap_or_else_into_inner: .unwrap(), which panics on Err.
unwrap(res) == IF res = "Ok" THEN "guard" ELSE "panic"

\* .unwrap_or_else(PoisonError::into_inner): the guard, poisoned or not.
unwrap_or_else_into_inner(res) == "guard"

\* Mutant of once_runs_init: every caller that finds no stored value runs
\* the initializer (a racy lazy initialization).
always_runs_init(c) == c # "init"

\* OnceLock::get_or_init runs the initializer only for an empty cell.
once_runs_init(c) == c = "uninit"

\* ------------------------------------------------------------- state
VARIABLES
    T,          \* the interner's type parameter: "str" or "label"
    policy,     \* the RwLock's priority policy (platform dependent)
    cell,       \* OnceLock: "uninit", "running" (initializer running), "init"
    set,        \* the HashSet of canonical references inside the RwLock
    readers,    \* threads holding the shared lock
    writer,     \* thread holding the exclusive lock, or NoThread
    poisoned,   \* the RwLock's poison flag
    nextAddr,   \* the allocator's next free address
    pc,         \* each thread's position in intern()
    arg,        \* each thread's `value` argument
    leaked,     \* each thread's local `leaked`
    ret,        \* the handle a thread's last call returned (NoRef: none)
    path,       \* per call: what the call has done so far (history)
    calls,      \* number of intern calls started
    panics,     \* number of panics under the exclusive lock
    initCount,  \* how often the OnceLock's initializer completed (history)
    leakCount,  \* per value: permanent references created by leak (history)
    returned,   \* every completed call: value, handle, path (history)
    setAtAbort, \* the registry as it was when the lock was poisoned (history)
    x, y, z,    \* handles a caller holds: the operands of a direct call
    out         \* the operation last applied to them and what it returned

vars == <<T, policy, cell, set, readers, writer, poisoned, nextAddr, pc, arg, leaked, ret,
          path, calls, panics, initCount, leakCount, returned, setAtAbort, x, y, z, out>>

\* The caller's operands and the result slot; intern() touches neither.
operands == <<x, y, z, out>>

\* No operation has been applied yet.
NoOut == [op |-> "none", res |-> <<>>]

\* What one call has done: took the shared lock, found its value under it,
\* took the exclusive lock, found its value at the re-check, called leak,
\* was handed a poisoned lock, panicked.
NoPath == [readLocked |-> FALSE, hitRead |-> FALSE, wrote |-> FALSE,
           hitWrite |-> FALSE, leaked |-> FALSE, sawPoison |-> FALSE,
           aborted |-> FALSE]

\* std's RwLock guarantees no priority policy: a thread waiting in write()
\* "might or might not block concurrent calls to read".
LockPolicies == {"readers_pass", "writers_first"}

\* Mutant of read_lockable: a mutex instead of a reader-writer lock (a
\* reader also waits for the other readers).
mutex_lockable == writer = NoThread /\ readers = {}

\* RwLock::read returns: no thread holds the exclusive lock and, under the
\* writers-first policy, none is waiting for it.
read_lockable ==
    /\ writer = NoThread
    /\ policy = "writers_first" => \A u \in Threads : pc[u] # "write"

\* Mutant of write_lockable: the writer does not wait for the readers.
write_ignores_readers == writer = NoThread

\* RwLock::write returns: no thread holds the lock in either mode.
write_lockable == writer = NoThread /\ readers = {}

\* Interner::new(): Self(OnceLock::new()); no thread has called intern.
Init ==
    /\ T \in InternableTypes
    /\ policy \in LockPolicies
    /\ cell = "uninit"
    /\ set = {}
    /\ readers = {}
    /\ writer = NoThread
    /\ poisoned = FALSE
    /\ nextAddr = HeapBase
    /\ pc = [t \in Threads |-> "idle"]
    /\ arg = [t \in Threads |-> deref(NoRef)]
    /\ leaked = [t \in Threads |-> NoRef]
    /\ ret = [t \in Threads |-> NoRef]
    /\ path = [t \in Threads |-> NoPath]
    /\ calls = 0
    /\ panics = 0
    /\ initCount = 0
    /\ leakCount = [v \in Values |-> 0]
    /\ returned = {}
    /\ setAtAbort = {}
    /\ x = NoRef
    /\ y = NoRef
    /\ z = NoRef
    /\ out = NoOut

\* return Interned(r): the call of thread t ends with handle r.
Return(t, r, p) ==
    /\ pc' = [pc EXCEPT ![t] = "idle"]
    /\ ret' = [ret EXCEPT ![t] = r]
    /\ path' = [path EXCEPT ![t] = p]
    /\ returned' = returned \cup {[val |-> arg[t], ref |-> r, path |-> p]}

\* A thread calls interner.intern(&v).
Call(t, v) ==
    /\ pc[t] = "idle"
    /\ v \in ValuesOf(T)
    /\ calls < MaxCalls
    /\ calls' = calls + 1
    /\ pc' = [pc EXCEPT ![t] = "get_or_init"]
    /\ arg' = [arg EXCEPT ![t] = v]
    /\ leaked' = [leaked EXCEPT ![t] = NoRef]
    /\ ret' = [ret EXCEPT ![t] = NoRef]
    /\ path' = [path EXCEPT ![t] = NoPath]
    /\ UNCHANGED <<operands, T, policy, cell, set, readers, writer, poisoned, nextAddr, panics,
                   initCount, leakCount, returned, setAtAbort>>

\* self.0.get_or_init(Default::default): the first caller starts the
\* initializer, callers arriving while it runs block, later callers pass.
GetOrInit(t) ==
    /\ pc[t] = "get_or_init"
    /\ cell # "running" \/ once_runs_init(cell)
    /\ IF once_runs_init(cell)
       THEN /\ cell' = "running"
            /\ pc' = [pc EXCEPT ![t] = "initializing"]
       ELSE /\ cell' = cell
            /\ pc' = [pc EXCEPT ![t] = "read"]
    /\ UNCHANGED <<operands, T, policy, set, readers, writer, poisoned, nextAddr, arg, leaked, ret,
                   path, calls, panics, initCount, leakCount, returned,
                   setAtAbort>>

\* The initializer completes: RwLock::new(HashSet::new()) is stored.
InitDone(t) ==
    /\ pc[t] = "initializing"
    /\ cell' = "init"
    /\ set' = {}
    /\ readers' = {}
    /\ writer' = NoThread
    /\ poisoned' = FALSE
    /\ initCount' = initCount + 1
    /\ pc' = [pc EXCEPT ![t] = "read"]
    /\ UNCHANGED <<operands, T, policy, nextAddr, arg, leaked, ret, path, calls, panics, leakCount,
                   returned, setAtAbort>>

\* lock.read().unwrap_or_else(PoisonError::into_inner).
ReadLock(t) ==
    /\ pc[t] = "read"
    /\ read_lockable
    /\ IF unwrap_or_else_into_inner(lock_result(poisoned)) = "guard"
       THEN /\ readers' = readers \cup {t}
            /\ pc' = [pc EXCEPT ![t] = "rcheck"]
            /\ path' = [path EXCEPT ![t].readLocked = TRUE,
                                     ![t].sawPoison = @ \/ poisoned]
       ELSE /\ readers' = readers
            /\ pc' = [pc EXCEPT ![t] = "idle"]
            /\ path' = path
    /\ UNCHANGED <<operands, T, policy, cell, set, writer, poisoned, nextAddr, arg, leaked, ret,
                   calls, panics, initCount, leakCount, returned, setAtAbort>>

\* Mutant of ReadCheck: the read guard is dropped only on return, so a call
\* that missed still holds it when it requests the exclusive lock.
ReadCheckKeepsGuard(t) ==
    /\ pc[t] = "rcheck"
    /\ IF read_lookup(set, arg[t]) # {}
       THEN /\ readers' = readers \ {t}
            /\ Return(t, CHOOSE r \in read_lookup(set, arg[t]) : TRUE,
                      [path[t] EXCEPT !.hitRead = TRUE])
       ELSE /\ pc' = [pc EXCEPT ![t] = "write"]
            /\ UNCHANGED <<readers, ret, path, returned>>
    /\ UNCHANGED <<operands, T, policy, cell, set, writer, poisoned, nextAddr, arg, leaked, calls,
                   panics, initCount, leakCount, setAtAbort>>

\* if let Some(value) = set.get(value) { return Interned(*value) }, then the
\* read guard is dropped.
ReadCheck(t) ==
    /\ pc[t] = "rcheck"
    /\ readers' = readers \ {t}
    /\ IF read_lookup(set, arg[t]) # {}
       THEN Return(t, CHOOSE r \in read_lookup(set, arg[t]) : TRUE,
                   [path[t] EXCEPT !.hitRead = TRUE])
       ELSE /\ pc' = [pc EXCEPT ![t] = "write"]
            /\ UNCHANGED <<ret, path, returned>>
    /\ UNCHANGED <<operands, T, policy, cell, set, writer, poisoned, nextAddr, arg, leaked, calls,
                   panics, initCount, leakCount, setAtAbort>>

\* lock.write().unwrap_or_else(PoisonError::into_inner).
WriteLock(t) ==
    /\ pc[t] = "write"
    /\ write_lockable
    /\ IF unwrap_or_else_into_inner(lock_result(poisoned)) = "guard"
       THEN /\ writer' = t
            /\ pc' = [pc EXCEPT ![t] = "wcheck"]
            /\ path' = [path EXCEPT ![t].wrote = TRUE,
                                     ![t].sawPoison = @ \/ poisoned]
            /\ poisoned' = poisoned
       ELSE /\ writer' = writer
            /\ pc' = [pc EXCEPT ![t] = "idle"]
            /\ path' = path
            /\ poisoned' = TRUE
    /\ UNCHANGED <<operands, T, policy, cell, set, readers, nextAddr, arg, leaked, ret, calls,
                   panics, initCount, leakCount, returned, setAtAbort>>

\* if let Some(value) = set.get(value) { Interned(*value) } under the
\* exclusive lock; the write guard is dropped on return.
WriteCheck(t) ==
    /\ pc[t] = "wcheck"
    /\ IF write_lookup(set, arg[t]) # {}
       THEN /\ Return(t, CHOOSE r \in write_lookup(set, arg[t]) : TRUE,
                      [path[t] EXCEPT !.hitWrite = TRUE])
            /\ writer' = NoThread
       ELSE /\ pc' = [pc EXCEPT ![t] = "leak"]
            /\ UNCHANGED <<writer, ret, path, returned>>
    /\ UNCHANGED <<operands, T, policy, cell, set, readers, poisoned, nextAddr, arg, leaked, calls,
                   panics, initCount, leakCount, setAtAbort>>

\* let leaked = value.leak();
Leak(t) ==
    /\ pc[t] = "leak"
    /\ leaked' = [leaked EXCEPT ![t] = leak(arg[t], nextAddr)]
    /\ nextAddr' = alloc_after(arg[t], nextAddr)
    /\ leakCount' = [leakCount EXCEPT ![arg[t]] = @ + 1]
    /\ path' = [path EXCEPT ![t].leaked = TRUE]
    /\ pc' = [pc EXCEPT ![t] = "insert"]
    /\ UNCHANGED <<operands, T, policy, cell, set, readers, writer, poisoned, arg, ret, calls,
                   panics, initCount, returned, setAtAbort>>

\* set.insert(leaked); Interned(leaked); the write guard is dropped.
Insert(t) ==
    /\ pc[t] = "insert"
    /\ set' = insert(set, leaked[t])
    /\ writer' = NoThread
    /\ Return(t, leaked[t], path[t])
    /\ UNCHANGED <<operands, T, policy, cell, readers, poisoned, nextAddr, arg, leaked, calls,
                   panics, initCount, leakCount, setAtAbort>>

\* The user's code called under the exclusive lock (Hash/Eq in set.get,
\* dyn_clone in leak) panics: the write guard is dropped while unwinding,
\* which poisons the RwLock; the call returns nothing.
Panic(t) ==
    /\ pc[t] \in {"wcheck", "leak"}
    /\ panics < MaxPanics
    /\ panics' = panics + 1
    /\ writer' = NoThread
    /\ poisoned' = TRUE
    /\ setAtAbort' = IF poisoned THEN setAtAbort ELSE set
    /\ pc' = [pc EXCEPT ![t] = "idle"]
    /\ path' = [path EXCEPT ![t].aborted = TRUE]
    /\ UNCHANGED <<operands, T, policy, cell, set, readers, nextAddr, arg, leaked, ret, calls,
                   initCount, leakCount, returned>>

Next ==
    \E t \in Threads :
        \/ \E v \in Values : Call(t, v)
        \/ GetOrInit(t)
        \/ InitDone(t)
        \/ ReadLock(t)
        \/ ReadCheck(t)
        \/ WriteLock(t)
        \/ WriteCheck(t)
        \/ Leak(t)
        \/ Insert(t)
        \/ Panic(t)

Spec == Init /\ [][Next]_vars

\* The steps of intern() a thread takes by itself once it has been called
\* (every step but the call and a panic of the user's code).
Progress(t) ==
    \/ GetOrInit(t)
    \/ InitDone(t)
    \/ ReadLock(t)
    \/ ReadCheck(t)
    \/ WriteLock(t)
    \/ WriteCheck(t)
    \/ Leak(t)
    \/ Insert(t)

\* The interner under a fair scheduler: a thread whose next step of intern()
\* stays possible eventually takes it (threads are scheduled, and a lock
\* that stays free is handed to a thread waiting for it).
FairSpec == Spec /\ \A t \in Threads : WF_vars(Progress(t))

\* ------------------------------------------------- direct calls
\* The operations of the crate that take no lock, applied by a caller to
\* handles it holds: the operands are drawn at the start, each action
\* applies one operation as the code computes it and records the result.
PureInit ==
    /\ T \in InternableTypes
    /\ policy = "readers_pass"
    /\ cell = "uninit"
    /\ set = {}
    /\ readers = {}
    /\ writer = NoThread
    /\ poisoned = FALSE
    /\ nextAddr = HeapBase
    /\ pc = [t \in Threads |-> "idle"]
    /\ arg = [t \in Threads |-> deref(NoRef)]
    /\ leaked = [t \in Threads |-> NoRef]
    /\ ret = [t \in Threads |-> NoRef]
    /\ path = [t \in Threads |-> NoPath]
    /\ calls = 0
    /\ panics = 0
    /\ initCount = 0
    /\ leakCount = [v \in Values |-> 0]
    /\ returned = {}
    /\ setAtAbort = {}
    /\ x \in HandlesOf(T)
    /\ y \in HandlesOf(T)
    /\ z \in HandlesOf(T)
    /\ Consistent({x, y, z})
    /\ out = NoOut

\* The variables of the interner, which a direct call leaves alone.
interner == <<T, policy, cell, set, readers, writer, poisoned, nextAddr, pc, arg, leaked,
              ret, path, calls, panics, initCount, leakCount, returned, setAtAbort>>

\* (**x).as_dyn_eq().dyn_eq((**y).as_dyn_eq()) on two labels.
ApplyDynEq ==
    /\ T = "label"
    /\ out' = [op |-> "dyn_eq", res |-> <<dyn_eq(deref(x), deref(y))>>]
    /\ UNCHANGED <<interner, x, y, z>>


\* (**x).as_dyn_hash().dyn_hash(state) on two labels: what each call feeds
\* to its hasher.
ApplyDynHash ==
    /\ T = "label"
    /\ out' = [op |-> "dyn_hash", res |-> <<dyn_hash(deref(x)), dyn_hash(deref(y))>>]
    /\ UNCHANGED <<interner, x, y, z>>

\* Internable::ref_eq on the referents of the handles (x == y on handles).
ApplyRefEq ==
    /\ out' = [op |-> "ref_eq",
               res |-> <<ref_eq(x, x), ref_eq(x, y), ref_eq(y, x), ref_eq(y, z),
                         ref_eq(x, z)>>]
    /\ UNCHANGED <<interner, x, y, z>>

\* Internable::ref_hash on the referents of two handles: what each call
\* feeds to its hasher.
ApplyRefHash ==
    /\ out' = [op |-> "ref_hash", res |-> <<ref_hash(x), ref_hash(y)>>]
    /\ UNCHANGED <<interner, x, y, z>>


\* x.dyn_clone(), x.as_dyn_eq(), x.as_dyn_hash() on a label handle, each
\* beside the same operation on the value the handle was interned from.
ApplyDynClone ==
    /\ T = "label"
    /\ out' = [op |-> "dyn_clone", res |-> <<interned_dyn_clone(x), dyn_clone(deref(x))>>]
    /\ UNCHANGED <<interner, x, y, z>>

ApplyAsDynEq ==
    /\ T = "label"
    /\ out' = [op |-> "as_dyn_eq", res |-> <<interned_as_dyn_eq(x), as_dyn_eq(deref(x))>>]
    /\ UNCHANGED <<interner, x, y, z>>

ApplyAsDynHash ==
    /\ T = "label"
    /\ out' = [op |-> "as_dyn_hash",
               res |-> <<interned_as_dyn_hash(x), as_dyn_hash(deref(x))>>]
    /\ UNCHANGED <<interner, x, y, z>>

\* An extra method on a label handle, in a category declared with the given
\* body for handles, beside the method on the value.
ApplyExtra(body) ==
    /\ T = "label"
    /\ out' = [op |-> "extra",
               res |-> <<extra_method_impl(body, x), extra_method(deref(x)), body>>]
    /\ UNCHANGED <<interner, x, y, z>>

PureNext ==
    \/ ApplyDynEq
    \/ ApplyDynHash
    \/ ApplyRefEq
    \/ ApplyRefHash
    \/ ApplyDynClone
    \/ ApplyAsDynEq
    \/ ApplyAsDynHash
    \/ \E body \in ImplBodies : ApplyExtra(body)

PureSpec == PureInit /\ [][PureNext]_vars


\* ------------------------------------------- handles beside the interner
\* A thread that holds the handle its last call returned copies it
\* (Copy, or Clone::clone) while the other threads run intern().
Copy(t) ==
    /\ pc[t] = "idle"
    /\ ret[t] # NoRef
    /\ out' = [op |-> "copy", res |-> <<ret[t], interned_clone(ret[t])>>]
    /\ UNCHANGED <<interner, x, y, z>>

\* The thread calls Label::intern on the handle of a label category.
InternedIntern(t) ==
    /\ T = "label"
    /\ pc[t] = "idle"
    /\ ret[t] # NoRef
    /\ out' = [op |-> "intern", res |-> <<ret[t], interned_intern(ret[t])>>]
    /\ UNCHANGED <<interner, x, y, z>>

HandleNext ==
    \/ Next
    \/ \E t \in Threads : Copy(t)
    \/ \E t \in Threads : InternedIntern(t)

HandleSpec == Init /\ [][HandleNext]_vars

\* ===================================================================
\* Properties
\* ===================================================================

\* The entries of the registry holding value v (plain structural equality).
Entries(v) == {r \in set : deref(r) = v}

\* C1: any two completed intern calls on the interner whose arguments are
\* structurally equal returned handles that are identity-equal (ref_eq) and
\* are the same permanent reference, whatever the interleaving.
C1_EqualValuesSameHandle ==
    \A a \in returned : \A b \in returned :
        a.val = b.val => interned_eq(a.ref, b.ref) /\ a.ref = b.ref

\* C1 witness: two calls with the same value raced; one created the
\* reference, the other missed in its read phase and found it at the re-check.
C1_Witness ==
    \E a \in returned : \E b \in returned :
        a.val = b.val /\ a.path.leaked /\ b.path.hitWrite

C3_HandleEqIffValueEq ==
    \A a \in returned : \A b \in returned :
        interned_eq(a.ref, b.ref) <=> a.val = b.val

\* C3 witness: handles for the two unit structs (same dangling address,
\* different concrete types) and for a sized value have been returned.
C3_Witness ==
    \E a \in returned : \E b \in returned : \E c \in returned :
        /\ a.val.ty = "U" /\ b.val.ty = "V" /\ c.val.ty = "A"
        /\ a.ref.addr = b.ref.addr

\* C5: the handle a call returns dereferences to a value structurally
\* equal to the call's argument, on each of the three return paths.
C5_DerefIsArgument ==
    \A rec \in returned : deref(rec.ref) = rec.val

\* C5 witness: calls have returned on all three paths: found under the
\* shared lock, found at the re-check, newly leaked.
C5_Witness ==
    /\ \E rec \in returned : rec.path.hitRead
    /\ \E rec \in returned : rec.path.hitWrite
    /\ \E rec \in returned : rec.path.leaked

\* The atomic operation intern is compared with: look the value up, insert
\* the fresh reference if it is absent, return the canonical reference.
AtomicIntern(S, v, fresh) ==
    IF \E r \in S : deref(r) = v
    THEN [set |-> S, ret |-> CHOOSE r \in S : deref(r) = v]
    ELSE [set |-> S \cup {fresh}, ret |-> fresh]

\* Thread t's call returns a handle in this step.
Returns(t) == pc[t] # "idle" /\ pc'[t] = "idle" /\ ret'[t] # NoRef

\* C4: intern is linearizable: every call takes effect in one step between
\* its call and its return (the step in which it returns and drops its
\* guard); in that step the registry and the returned handle change exactly
\* as the atomic look-up-or-insert applied to the registry would, and no
\* other step changes the registry.
C4_Linearizable ==
    [][ /\ \A t \in Threads : Returns(t) =>
              /\ deref(ret'[t]) = arg[t]
              /\ Entries(arg[t]) = {} => ret'[t] \notin set
              /\ [set |-> set', ret |-> ret'[t]]
                     = AtomicIntern(set, arg[t], ret'[t])
        /\ (\A t \in Threads : ~Returns(t)) => set' = set ]_vars

\* C4 witness: a call that missed in its read phase holds the exclusive
\* lock while the value has meanwhile been inserted by another call.
C4_Witness ==
    \E t \in Threads :
        /\ pc[t] = "wcheck" /\ writer = t /\ path[t].readLocked
        /\ Entries(arg[t]) # {}

\* C6: once a panic under the exclusive lock has poisoned the lock, every
\* call that requests the shared or the exclusive lock still obtains it
\* (it is not aborted by the poison), the registry keeps every entry it had
\* at the abort, calls handed the poisoned lock return the entries from
\* before the abort without leaking again, and equal values still get the
\* same handle.
C6_PoisonRecovery ==
    /\ [](poisoned => setAtAbort \subseteq set)
    /\ [](\A rec \in returned : rec.path.sawPoison =>
            /\ deref(rec.ref) = rec.val
            /\ rec.ref \in set
            /\ (\E r \in setAtAbort : deref(r) = rec.val)
                  => rec.ref \in setAtAbort /\ ~rec.path.leaked)
    /\ [](\A a \in returned : \A b \in returned :
            poisoned /\ a.val = b.val => ref_eq(a.ref, b.ref))
    /\ [](\A t \in Threads :
            /\ poisoned /\ pc[t] = "read" /\ writer = NoThread
                  /\ (\A u \in Threads : pc[u] # "write")
                  => ENABLED ReadLock(t)
            /\ poisoned /\ pc[t] = "write" /\ writer = NoThread /\ readers = {}
                  => ENABLED WriteLock(t))
    /\ [][\A t \in Threads :
            /\ poisoned /\ pc[t] = "read" /\ pc'[t] # "read"
                  => pc'[t] = "rcheck" /\ t \in readers'
            /\ poisoned /\ pc[t] = "write" /\ pc'[t] # "write"
                  => pc'[t] = "wcheck" /\ writer' = t]_vars

\* C6 witness: after the abort, a call handed the poisoned shared lock has
\* returned an entry inserted before the abort.
C6_Witness ==
    /\ poisoned
    /\ \E rec \in returned :
           rec.path.sawPoison /\ rec.path.hitRead /\ rec.ref \in setAtAbort

\* C7: every step leaves the registry a superset of what it was; it changes
\* only by the single entry an insert step adds; its size never exceeds the
\* number of distinct values interned so far.
C7_RegistryOnlyGrows ==
    /\ [][ /\ set \subseteq set'
           /\ Cardinality(set') <= Cardinality(set) + 1
           /\ set' # set => \E t \in Threads :
                  pc[t] = "insert" /\ set' = set \cup {leaked[t]} ]_vars
    /\ [](Cardinality(set) <= Cardinality({rec.val : rec \in returned}))

\* C7 witness: three distinct values have been interned one after another.
C7_Witness == Cardinality(set) = 3

\* C8 (as stated): a call never waits for a call with a different value to
\* release the exclusive lock.
C8_NeverWaitsForOtherValue ==
    \A t \in Threads : \A u \in Threads :
        ~(writer = t /\ u # t /\ pc[u] \in {"read", "write"} /\ arg[u] # arg[t])

\* Some call holds or requests the exclusive lock.
WriterAround == writer # NoThread \/ \E u \in Threads : pc[u] = "write"

\* C8 (amended): calls contend only through the reader-writer lock: a call
\* requesting the shared lock waits only while some call holds or requests
\* the exclusive lock (never for readers alone) and always waits while one
\* holds it, whatever the values; a call requesting the exclusive lock waits
\* exactly while another call holds the lock in either mode; no other step
\* waits; and the exclusive lock is only ever held by a call that missed in
\* its read phase.
C8_ContentionOnlyThroughLock ==
    \A t \in Threads :
        /\ pc[t] = "read" /\ ~WriterAround => ENABLED ReadLock(t)
        /\ pc[t] = "read" /\ writer # NoThread => ~ENABLED ReadLock(t)
        /\ pc[t] = "write" =>
              (ENABLED WriteLock(t) <=> writer = NoThread /\ readers = {})
        /\ pc[t] = "rcheck" => ENABLED ReadCheck(t)
        /\ pc[t] = "wcheck" => ENABLED WriteCheck(t)
        /\ pc[t] = "leak" => ENABLED Leak(t)
        /\ pc[t] = "insert" => ENABLED Insert(t)
        /\ writer = t => path[t].readLocked /\ ~path[t].hitRead

\* C8 witness: a call holds the exclusive lock and a call with a different
\* value, requesting the shared lock, has to wait for it.
C8_Witness ==
    \E t \in Threads : \E u \in Threads :
        /\ writer = t /\ pc[u] = "read" /\ arg[u] # arg[t]
        /\ ~ENABLED ReadLock(u)

\* C9: a call that finds its value under the shared lock returns that entry
\* in the same step, never takes the exclusive lock and never calls leak;
\* a thread requesting the shared lock is not held up by threads holding
\* the shared lock (while no call holds or requests the exclusive lock).
C9_ReadHitFastPath ==
    /\ [][\A t \in Threads :
            pc[t] = "rcheck" /\ Entries(arg[t]) # {} /\ pc'[t] # "rcheck" =>
                /\ pc'[t] = "idle"
                /\ ret'[t] \in Entries(arg[t])
                /\ set' = set /\ writer' = writer
                /\ leakCount' = leakCount /\ nextAddr' = nextAddr
                /\ ~path'[t].wrote /\ ~path'[t].leaked]_vars
    /\ [](\A rec \in returned :
            rec.path.hitRead => ~rec.path.wrote /\ ~rec.path.leaked)
    /\ [](\A t \in Threads :
            pc[t] = "read" /\ readers # {} /\ ~WriterAround
                => ENABLED ReadLock(t))

\* C9 witness: all threads hold the shared lock at the same time, each
\* looking up a value that is in the registry.
C9_Witness ==
    /\ readers = Threads
    /\ \A t \in Threads : pc[t] = "rcheck" /\ Entries(arg[t]) # {}

\* The registry's lifecycle state: 0 uninitialized, 1 initialized and empty,
\* 2 initialized and nonempty.
RegistryState == IF cell # "init" THEN 0 ELSE IF set = {} THEN 1 ELSE 2

\* C10: the registry is uninitialized until the first intern call, its
\* initializer completes at most once, threads pass get_or_init only once
\* it is initialized, and its lifecycle state never decreases.
C10_Lifecycle ==
    /\ [](calls = 0 => RegistryState = 0)
    /\ [](initCount <= 1 /\ (cell = "init" <=> initCount = 1))
    /\ [](\A t \in Threads :
            pc[t] \in {"read", "rcheck", "write", "wcheck", "leak", "insert"}
                => cell = "init")
    /\ [][RegistryState' >= RegistryState]_vars

\* C10 witness: two threads make the first call concurrently; one runs the
\* initializer while the other waits in get_or_init.
C10_Witness ==
    /\ cell = "running"
    /\ \E t \in Threads : \E u \in Threads :
           pc[t] = "initializing" /\ pc[u] = "get_or_init"

\* The threads inside the block guarded by the write guard, and by the
\* read guard.
WriteHolders == {t \in Threads : pc[t] \in {"wcheck", "leak", "insert"}}
ReadHolders == {t \in Threads : pc[t] = "rcheck"}

\* C15: the registry changes only in the insert step of the one thread
\* holding the exclusive lock, while no other thread holds the lock in
\* either mode; leak runs only in a thread holding the exclusive lock whose
\* re-check found no equal entry; a thread that finds an equal entry at the
\* re-check returns it and creates nothing.
C15_MutationUnderExclusiveLock ==
    /\ [](/\ Cardinality(WriteHolders) <= 1
          /\ WriteHolders # {} => WriteHolders = {writer} /\ ReadHolders = {}
          /\ ReadHolders = readers)
    /\ [][set' # set => \E t \in Threads :
            /\ WriteHolders = {t} /\ ReadHolders = {} /\ pc[t] = "insert"
            /\ set' = set \cup {leaked[t]}]_vars
    /\ [][\A v \in Values : leakCount'[v] # leakCount[v] =>
            \E t \in Threads :
                /\ WriteHolders = {t} /\ ReadHolders = {}
                /\ arg[t] = v /\ Entries(v) = {}
                /\ path[t].wrote /\ ~path[t].hitWrite]_vars
    /\ [][\A t \in Threads :
            /\ pc[t] = "wcheck" /\ Entries(arg[t]) # {}
            /\ pc'[t] # "wcheck" /\ ~path'[t].aborted
            => /\ ret'[t] \in Entries(arg[t])
               /\ set' = set /\ leakCount' = leakCount
               /\ nextAddr' = nextAddr]_vars

\* C15 witness: a thread that missed in its read phase has returned the
\* entry it found at the re-check, without calling leak.
C15_Witness ==
    \E rec \in returned :
        rec.path.readLocked /\ rec.path.hitWrite /\ ~rec.path.leaked
        /\ rec.ref \in set /\ leakCount[rec.val] = 1

\* C17 (as stated): no two distinct canonical references of a registry
\* have the same address.
C17_AddressesDistinct ==
    \A r1 \in set : \A r2 \in set : r1 # r2 => r1.addr # r2.addr

\* C17 (amended): two distinct canonical references of a registry have the
\* same address only if both are of zero-sized concrete types (leak does
\* not allocate for them); they then differ in their concrete type, and
\* ref_eq tells them apart by the type tag alone.
C17_AddressesDistinctUnlessZeroSized ==
    \A r1 \in set : \A r2 \in set :
        r1 # r2 /\ r1.addr = r2.addr =>
            /\ size_of_val(deref(r1)) = 0 /\ size_of_val(deref(r2)) = 0
            /\ type_id(r1) # type_id(r2)
            /\ ~ref_eq(r1, r2)

\* C17 witness: the registry holds the two unit structs at the same
\* (dangling) address and a sized value at an allocated address.
C17_Witness ==
    \E r1 \in set : \E r2 \in set : \E r3 \in set :
        /\ r1 # r2 /\ r1.addr = r2.addr
        /\ size_of_val(deref(r3)) > 0 /\ r3.addr # r1.addr

\* C16: under fair scheduling every behaviour comes to rest with no call
\* in progress, so every call that was started ends; a call ends with a
\* handle unless the call's own user code panicked; no state with a call
\* in progress is a deadlock; and a thread never holds the shared lock
\* while it requests or holds the exclusive lock.
C16_EveryCallReturns ==
    /\ <>[](\A t \in Threads : pc[t] = "idle")
    /\ [][\A t \in Threads :
            pc[t] # "idle" /\ pc'[t] = "idle"
                => ret'[t] # NoRef \/ path'[t].aborted]_vars
    /\ []((\E t \in Threads : pc[t] # "idle")
            => \E t \in Threads : ENABLED Progress(t))
    /\ [](\A t \in Threads :
            pc[t] \in {"write", "wcheck", "leak", "insert"}
                => t \notin readers)

\* C16 witness: a thread that has dropped its read guard waits for the
\* exclusive lock while another thread holds the shared lock.
C16_Witness ==
    \E t \in Threads : \E u \in Threads :
        /\ pc[t] = "write" /\ path[t].readLocked /\ t \notin readers
        /\ u # t /\ u \in readers

\* C11: dyn_eq is true exactly when the two values have the same concrete
\* type and are equal under that type's own equality; for different types
\* the result is the boolean false, identical fields or not.
C11_DynEqSameTypeAndEqual ==
    out.op = "dyn_eq" =>
        /\ out.res[1] \in BOOLEAN
        /\ out.res[1] <=> (type_id(x) = type_id(y) /\ x.data = y.data)
        /\ type_id(x) # type_id(y) => out.res[1] = FALSE

\* C11 witness: dyn_eq was applied to two values of different concrete
\* types with identical fields and identical own hash input.
C11_Witness ==
    /\ out.op = "dyn_eq"
    /\ type_id(x) # type_id(y)
    /\ x.data = y.data
    /\ concrete_hash(deref(x)) = concrete_hash(deref(y))
    /\ out.res[1] = FALSE

\* C12: dyn_hash feeds the concrete type's id and then the value's own hash
\* input; two values of different types with the same own hash input feed
\* different sequences, two dynamically equal values feed the same one.
C12_DynHashTypeIdFirst ==
    out.op = "dyn_hash" =>
        /\ out.res[1] = <<type_id(x)>> \o concrete_hash(deref(x))
        /\ out.res[2] = <<type_id(y)>> \o concrete_hash(deref(y))
        /\ (type_id(x) # type_id(y)
              /\ concrete_hash(deref(x)) = concrete_hash(deref(y)))
                => out.res[1] # out.res[2]
        /\ dyn_eq(deref(x), deref(y)) => out.res[1] = out.res[2]

\* C12 witness: dyn_hash was applied to two values of different types whose
\* own hash inputs coincide, and the sequences fed differ.
C12_Witness ==
    /\ out.op = "dyn_hash"
    /\ type_id(x) # type_id(y)
    /\ concrete_hash(deref(x)) = concrete_hash(deref(y))
    /\ out.res[1] # out.res[2]

\* C13: ref_eq is true exactly for two handles of the same permanent
\* reference: same address and length for a str, same address and concrete
\* type for a label; it is false for referents of different concrete types
\* even at one address.
C13_RefEqIsSameReference ==
    out.op = "ref_eq" =>
        /\ out.res[2] <=> x = y
        /\ T = "str" =>
              (out.res[2] <=> (x.addr = y.addr /\ Len(x.data) = Len(y.data)))
        /\ T = "label" =>
              /\ out.res[2] <=> (x.addr = y.addr /\ type_id(x) = type_id(y))
              /\ type_id(x) # type_id(y) => out.res[2] = FALSE

\* C13 witness: ref_eq was applied to two label handles with one address
\* and different concrete types, and returned false.
C13_Witness ==
    /\ out.op = "ref_eq"
    /\ T = "label"
    /\ x.addr = y.addr
    /\ type_id(x) # type_id(y)
    /\ out.res[2] = FALSE

\* C19: ref_eq is reflexive, symmetric and transitive on the handles of one
\* type, and two handles that are ref_eq feed the same input to the hasher:
\* the length and the address for a str, the type id and the address for a
\* label.
C19_RefEqEquivalenceHashConsistent ==
    /\ out.op = "ref_eq" =>
          /\ out.res[1]
          /\ out.res[2] => out.res[3]
          /\ (out.res[2] /\ out.res[4]) => out.res[5]
    /\ out.op = "ref_hash" =>
          /\ ref_eq(x, y) => out.res[1] = out.res[2]
          /\ T = "str" => out.res[1] = <<Len(x.data), x.addr>>
          /\ T = "label" => out.res[1] = <<type_id(x), x.addr>>

\* C19 witness: ref_hash was applied to two handles that are ref_eq, in a
\* state whose third handle shares their address without being ref_eq.
C19_Witness ==
    /\ out.op = "ref_hash"
    /\ ref_eq(x, y)
    /\ out.res[1] = out.res[2]
    /\ z.addr = x.addr
    /\ ~ref_eq(x, z)

\* C14: every operation of the category interface gives the same result on
\* a handle as on the value it was interned from: dyn_clone, as_dyn_eq,
\* as_dyn_hash and any extra method of the category.
C14_HandleSameAsValue ==
    out.op \in {"dyn_clone", "as_dyn_eq", "as_dyn_hash", "extra"} =>
        out.res[1] = out.res[2]

\* C14 amended: dyn_clone, as_dyn_eq and as_dyn_hash give the same result
\* on a handle as on the value; an extra method gives on a handle what the
\* body supplied for handles computes, which is the value's result when
\* that body forwards to the referent.
C14_BuiltinsForwardExtrasAsSupplied ==
    /\ out.op \in {"dyn_clone", "as_dyn_eq", "as_dyn_hash"} =>
          /\ out.res[1] = out.res[2]
          /\ type_id(out.res[1]) = type_id(x)
          /\ dyn_eq(out.res[1], deref(x))
    /\ out.op = "extra" =>
          /\ out.res[1] = extra_method_impl(out.res[3], x)
          /\ out.res[3] = "forwards" => out.res[1] = out.res[2]

\* C14 witness: an extra method was called on the handle of a sized value
\* in a category whose body for handles forwards to the referent.
C14_Witness ==
    /\ out.op = "extra"
    /\ out.res[3] = "forwards"
    /\ out.res[1] = out.res[2]
    /\ size_of_val(deref(x)) > 0

\* C18: copying a handle, and calling intern on a handle of a label
\* category, return a handle identity-equal to the original and change
\* nothing of the registry, the lock, the allocator or the leak counts; a
\* thread holding a handle can always do both, whoever holds the lock.
C18_HandleCopyLeavesRegistry ==
    /\ [][out' # out =>
            /\ out'.op \in {"copy", "intern"}
            /\ \E t \in Threads : pc[t] = "idle" /\ out'.res[1] = ret[t]
            /\ interned_eq(out'.res[2], out'.res[1])
            /\ out'.res[2] = out'.res[1]
            /\ set' = set
            /\ readers' = readers /\ writer' = writer /\ poisoned' = poisoned
            /\ cell' = cell
            /\ leakCount' = leakCount /\ nextAddr' = nextAddr
            /\ pc' = pc]_vars
    /\ [](\A t \in Threads :
            (pc[t] = "idle" /\ ret[t] # NoRef) =>
                /\ ENABLED Copy(t)
                /\ T = "label" => ENABLED InternedIntern(t))

\* C18 witness: intern was called on a handle while another thread held the
\* exclusive lock, and returned the same handle.
C18_Witness ==
    /\ out.op = "intern"
    /\ writer # NoThread
    /\ out.res[1] \in set
    /\ out.res[2] = out.res[1]

====
